---------------------------- MODULE Spec2Model ----------------------------
(***************************************************************************)
(* Model of src/research_engine.py: PromptEngine and ResearchService.      *)
(*                                                                         *)
(* Several invocations of ResearchService.generate_report run              *)
(* concurrently (the web layer, src/app.py:97, calls it once per request). *)
(* Each invocation reads OPENAI_API_KEY, possibly issues one urlopen call, *)
(* interprets the response and returns either the provider's document or   *)
(* the fallback report tagged with prompt_debug.                           *)
(*                                                                         *)
(* Python values are modelled as tagged records:                           *)
(*   None / JSON null   [t |-> "null"]                                     *)
(*   int / float        [t |-> "num",  v |-> n]                            *)
(*   str                [t |-> "str",  v |-> text]                         *)
(*   list               [t |-> "list", v |-> sequence of values]           *)
(*   dict               [t |-> "obj",  v |-> function from key to value]   *)
(* A text is [k |-> "plain", s |-> sequence of fragments] for text that is *)
(* not a JSON document, or [k |-> "json", doc |-> value] for the JSON      *)
(* encoding of value.  Bytes that are not valid UTF-8 are [k |-> "bytes"]. *)
(***************************************************************************)
EXTENDS Integers, Sequences, FiniteSets, TLC

\* Number of generate_report invocations the model follows.
NumInvocations == 2

\* Seconds of silence added by one Tick of an invocation's socket timer.
Quantum == 30

\* urlopen(req, timeout=45): seconds a blocking socket operation may wait.
timeout == 45

Invocations == 1..NumInvocations

---------------------------------------------------------------------------
\* Python values

None == [t |-> "null"]

JStr(text) == [t |-> "str", v |-> text]

JList(xs) == [t |-> "list", v |-> xs]

JObj(f) == [t |-> "obj", v |-> f]

Plain(s) == [k |-> "plain", s |-> s]

JsonText(doc) == [k |-> "json", doc |-> doc]

NotUtf8 == [k |-> "bytes"]

\* A Python str built from literal fragments and interpolated values.
Str(s) == JStr(Plain(s))

EmptyDict == [x \in {} |-> None]

\* len(text) > 0 for a str value's text.
TextNonEmpty(text) ==
    IF text.k = "plain" THEN Len(text.s) > 0 ELSE TRUE

\* bool(value): Python truthiness, as used by "if external:".
Truthy(value) ==
    CASE value.t = "null" -> FALSE
      [] value.t = "num"  -> value.v # 0
      [] value.t = "str"  -> TextNonEmpty(value.v)
      [] value.t = "list" -> Len(value.v) > 0
      [] value.t = "obj"  -> DOMAIN value.v # {}

\* dict with one key set: d[key] = item.
SetItem(d, key, item) ==
    JObj([x \in (DOMAIN d.v) \cup {key} |-> IF x = key THEN item ELSE d.v[x]])

---------------------------------------------------------------------------
\* str.strip() on a text given as a sequence of fragments; " " is whitespace.

IsSpace(c) == c = " "

RECURSIVE lstrip(_)
lstrip(s) ==
    IF s = <<>> THEN <<>>
    ELSE IF IsSpace(Head(s)) THEN lstrip(Tail(s)) ELSE s

RECURSIVE rstrip(_)
rstrip(s) ==
    IF s = <<>> THEN <<>>
    ELSE IF IsSpace(s[Len(s)]) THEN rstrip(SubSeq(s, 1, Len(s) - 1)) ELSE s

strip(s) == rstrip(lstrip(s))

\* os.getenv(name, default) on an environment entry [set, val].
getenv(entry, default) == IF entry.set THEN entry.val ELSE default

---------------------------------------------------------------------------
\* PromptEngine

build_system_prompt ==
    Str(<<"You are a scientific research assistant for students.\n",
          "Produce rigorous yet easy-to-understand outputs.\n",
          "Include evidence-oriented literature analysis, research gap detection,\n",
          "a feasible student-level methodology, simulated quantitative results,\n",
          "references, PPT outline, viva questions, and tools/datasets suggestions.\n",
          "Return valid JSON only.">>)

build_user_prompt(topic, query) ==
    Str(<<"Student topic: ">> \o topic \o <<"\nStudent research query: ">> \o query
        \o <<"\n\nReturn JSON with these keys exactly:\n",
             "abstract, introduction, literature_review, research_gaps,\n",
             "methodology, simulated_results, conclusion, references,\n",
             "ppt_outline, viva_questions, datasets_and_tools.\n\n",
             "Requirements:\n",
             "- literature_review must include source + finding entries from: Google Scholar, IEEE Xplore, PubMed\n",
             "- methodology must include design + steps\n",
             "- simulated_results must include summary + table[] with metric, baseline, proposed\n",
             "- references must be a list of citation strings\n",
             "- datasets_and_tools must include datasets[] and tools[]">>)

---------------------------------------------------------------------------
\* ResearchService: the required keys and the fallback generator

REQUIRED_KEYS ==
    {"abstract", "introduction", "literature_review", "research_gaps",
     "methodology", "simulated_results", "conclusion", "references",
     "ppt_outline", "viva_questions", "datasets_and_tools"}

Lit(s) == Str(<<s>>)

SourceEntry(source, finding) ==
    JObj([source |-> Lit(source), finding |-> Str(finding)])

\* A mis-ordered source list, as a slip in the literal would produce.
SimulateSourcesSwapped(topic) ==
    JList(<<
      SourceEntry("IEEE Xplore",
        <<"Engineering papers report trade-offs between model accuracy, latency, and deployment cost in ">>
        \o topic \o <<" systems.">>),
      SourceEntry("Google Scholar",
        <<"Recent studies on ">> \o topic
        \o <<" show measurable gains from hybrid and retrieval-augmented AI pipelines.">>),
      SourceEntry("PubMed",
        <<"Human-impact studies emphasize ethics, safety, and reproducibility for ">>
        \o topic \o <<"-related interventions.">>)
    >>)

_simulate_sources(topic) ==
    JList(<<
      SourceEntry("Google Scholar",
        <<"Recent studies on ">> \o topic
        \o <<" show measurable gains from hybrid and retrieval-augmented AI pipelines.">>),
      SourceEntry("IEEE Xplore",
        <<"Engineering papers report trade-offs between model accuracy, latency, and deployment cost in ">>
        \o topic \o <<" systems.">>),
      SourceEntry("PubMed",
        <<"Human-impact studies emphasize ethics, safety, and reproducibility for ">>
        \o topic \o <<"-related interventions.">>)
    >>)

Row(metric, baseline, proposed) ==
    JObj([metric |-> Lit(metric), baseline |-> Lit(baseline), proposed |-> Lit(proposed)])

FallbackFields(topic, query) ==
    [abstract |->
       Str(<<"This project investigates ">> \o topic
           \o <<" with a scientist-style workflow. ", "It addresses '">> \o query
           \o <<"' through literature synthesis, gap detection, and a practical student-level methodology.">>),
     introduction |->
       Str(topic \o <<" is an important research area in both academia and industry. ",
                      "This report explains the current state of knowledge and where a student can contribute new findings.">>),
     literature_review |-> _simulate_sources(topic),
     research_gaps |->
       JList(<<Lit("Limited benchmarking in low-resource student lab environments."),
               Lit("Inconsistent reproducibility due to missing open protocols and code-sharing."),
               Lit("Few studies jointly evaluate technical performance and real-world usability.")>>),
     methodology |->
       JObj([design |-> Lit("Mixed-method design: quantitative model benchmarking plus qualitative expert/student feedback."),
             steps |->
               JList(<<Lit("Collect and preprocess open datasets relevant to the topic."),
                       Lit("Implement baseline methods and at least one improved approach."),
                       Lit("Measure performance with Accuracy, F1, precision/recall, and latency."),
                       Lit("Analyze error patterns and compare findings with published work."),
                       Lit("Summarize limitations and propose future experiments.")>>)]),
     simulated_results |->
       JObj([summary |-> Lit("The proposed method is expected to improve baseline quality metrics while maintaining practical inference speed."),
             table |->
               JList(<<Row("Accuracy", "78%", "86%"),
                       Row("F1 Score", "0.74", "0.83"),
                       Row("Latency", "210ms", "185ms")>>)]),
     conclusion |->
       Str(<<"The study offers a feasible roadmap for student research on ">> \o topic
           \o <<". ", "It identifies concrete research gaps and a publishable experiment plan.">>),
     references |->
       JList(<<Str(<<"A. Kumar et al. (2023). Advances in ">> \o topic
                   \o <<". Journal of Student Research, 12(4), 1-20.">>),
               Str(<<"L. Chen & P. Smith (2022). Benchmarking ">> \o topic
                   \o <<" systems under practical constraints. IEEE Learning Systems.">>),
               Str(<<"R. Diaz et al. (2024). Reproducibility and ethics in ">> \o topic
                   \o <<". International Review of Applied AI.">>)>>),
     ppt_outline |->
       JList(<<Lit("Problem statement and motivation"),
               Lit("Literature landscape and gap analysis"),
               Lit("Research objectives and hypotheses"),
               Lit("Methodology and experimental setup"),
               Lit("Simulated/expected results"),
               Lit("Conclusion, limitations, and future work")>>),
     viva_questions |->
       JList(<<Lit("Why did you choose this topic and what problem does it solve?"),
               Lit("How is your methodology better or different than prior work?"),
               Lit("What are the strongest limitations of your current design?"),
               Lit("How would you validate generalization on larger or noisier datasets?"),
               Lit("What ethical or bias issues could affect your findings?")>>),
     datasets_and_tools |->
       JObj([datasets |->
               JList(<<Lit("Kaggle domain datasets"),
                       Lit("UCI Machine Learning Repository"),
                       Lit("Government open-data portals")>>),
             tools |->
               JList(<<Lit("Python (Pandas, scikit-learn, PyTorch)"),
                       Lit("Jupyter Notebook"),
                       Lit("Zotero or Mendeley"),
                       Lit("Tableau or Power BI")>>)])]

\* A fallback generator that forgets one required section.
FallbackWithoutReferences(topic, query) ==
    JObj([x \in REQUIRED_KEYS \ {"references"} |-> FallbackFields(topic, query)[x]])

_fallback_report(topic, query) == JObj(FallbackFields(topic, query))

\* report["prompt_debug"] = {...}, lines 200-204.
PromptDebug(topic, query) ==
    JObj([system_prompt |-> build_system_prompt,
          user_prompt |-> build_user_prompt(topic, query),
          source |-> Lit("fallback")])


---------------------------------------------------------------------------
\* Python evaluation: a result is a value or a raised exception.

Ok(value) == [ok |-> TRUE, val |-> value]

Raise(e) == [ok |-> FALSE, exc |-> e]

\* The exception classes that can arise in lines 181-187, each with its bases
\* (the class itself included).
Bases(e) ==
    CASE e = "HTTPError"          -> {"HTTPError", "URLError", "OSError"}
      [] e = "URLError"           -> {"URLError", "OSError"}
      [] e = "TimeoutError"       -> {"TimeoutError", "OSError"}
      [] e = "RemoteDisconnected" -> {"RemoteDisconnected", "ConnectionResetError",
                                      "ConnectionError", "OSError", "BadStatusLine",
                                      "HTTPException"}
      [] e = "IncompleteRead"     -> {"IncompleteRead", "HTTPException"}
      [] e = "UnicodeDecodeError" -> {"UnicodeDecodeError", "UnicodeError", "ValueError"}
      [] e = "JSONDecodeError"    -> {"JSONDecodeError", "ValueError"}
      [] e = "KeyError"           -> {"KeyError", "LookupError"}
      [] e = "IndexError"         -> {"IndexError", "LookupError"}
      [] e = "TypeError"          -> {"TypeError"}
      [] e = "AttributeError"     -> {"AttributeError"}

\* except (error.URLError, error.HTTPError, KeyError, json.JSONDecodeError, TimeoutError)
ExceptClause == {"URLError", "HTTPError", "KeyError", "JSONDecodeError", "TimeoutError"}

Caught(e) == Bases(e) \cap ExceptClause # {}

\* bytes.decode("utf-8")
decode(bytes) ==
    IF bytes.k = "bytes" THEN Raise("UnicodeDecodeError") ELSE Ok(bytes)

\* json.loads(arg)
json_loads(arg) ==
    IF arg.t # "str" THEN Raise("TypeError")
    ELSE IF arg.v.k = "json" THEN Ok(arg.v.doc)
    ELSE Raise("JSONDecodeError")

\* obj[name] for a str subscript.
GetKey(obj, name) ==
    IF obj.t = "obj"
    THEN IF name \in DOMAIN obj.v THEN Ok(obj.v[name]) ELSE Raise("KeyError")
    ELSE Raise("TypeError")

\* The first character of a non-empty text, as a text.
FirstChar(text) ==
    IF text.k = "plain" THEN Plain(<<Head(text.s)>>) ELSE Plain(<<"{">>)

\* obj[n] for an int subscript n >= 0.  A dict decoded from JSON has str keys only.
GetIndex(obj, n) ==
    CASE obj.t = "obj"  -> Raise("KeyError")
      [] obj.t = "list" -> IF n < Len(obj.v) THEN Ok(obj.v[n + 1]) ELSE Raise("IndexError")
      [] obj.t = "str"  -> IF TextNonEmpty(obj.v) /\ n = 0
                           THEN Ok(JStr(FirstChar(obj.v))) ELSE Raise("IndexError")
      [] OTHER          -> Raise("TypeError")

\* parsed.keys()
keys(parsed) ==
    IF parsed.t = "obj" THEN Ok(DOMAIN parsed.v) ELSE Raise("AttributeError")

\* A key check that accepts anything.
HasRequiredKeysAlways(keyset) == TRUE

\* cls.REQUIRED_KEYS.issubset(set(parsed.keys()))
HasRequiredKeys(keyset) == REQUIRED_KEYS \subseteq keyset

\* raw["choices"][0]["message"]["content"], line 184.
Content(raw) ==
    LET choices == GetKey(raw, "choices") IN
    IF ~choices.ok THEN choices ELSE
    LET first == GetIndex(choices.val, 0) IN
    IF ~first.ok THEN first ELSE
    LET message == GetKey(first.val, "message") IN
    IF ~message.ok THEN message ELSE
    GetKey(message.val, "content")

\* Lines 183-187 and 191 on the bytes read from the response: the document
\* returned at line 187, None from line 191, or the exception raised.
ReadResponse(bytes) ==
    LET text == decode(bytes) IN
    IF ~text.ok THEN text ELSE
    LET raw == json_loads(JStr(text.val)) IN
    IF ~raw.ok THEN raw ELSE
    LET content == Content(raw.val) IN
    IF ~content.ok THEN content ELSE
    LET parsed == json_loads(content.val) IN
    IF ~parsed.ok THEN parsed ELSE
    LET ks == keys(parsed.val) IN
    IF ~ks.ok THEN ks ELSE
    IF HasRequiredKeys(ks.val) THEN Ok(parsed.val) ELSE Ok(None)

---------------------------------------------------------------------------
\* What the provider can send and what the callers can ask.

\* A document with every required key and the shapes of the data model.
ProviderFields ==
    [abstract |-> Lit("remote abstract"),
     introduction |-> Lit("remote introduction"),
     literature_review |-> JList(<<SourceEntry("arXiv", <<"remote finding">>)>>),
     research_gaps |-> JList(<<Lit("remote gap")>>),
     methodology |-> JObj([design |-> Lit("remote design"),
                           steps |-> JList(<<Lit("remote step")>>)]),
     simulated_results |-> JObj([summary |-> Lit("remote summary"),
                                 table |-> JList(<<Row("AUC", "0.70", "0.80")>>)]),
     conclusion |-> Lit("remote conclusion"),
     references |-> JList(<<Lit("remote reference")>>),
     ppt_outline |-> JList(<<Lit("remote slide")>>),
     viva_questions |-> JList(<<Lit("remote question")>>),
     datasets_and_tools |-> JObj([datasets |-> JList(<<Lit("remote dataset")>>),
                                  tools |-> JList(<<Lit("remote tool")>>)])]

ProviderDoc == JObj(ProviderFields)

\* Every required key present, every value null.
NullDoc == JObj([x \in REQUIRED_KEYS |-> None])

ExtraKeyDoc == SetItem(ProviderDoc, "notes", Lit("remote notes"))

TaggedDoc == SetItem(ProviderDoc, "prompt_debug", JObj([source |-> Lit("fallback")]))

\* One required key missing, one extra key present.
MissingKeyDoc ==
    JObj([x \in (REQUIRED_KEYS \ {"references"}) \cup {"notes"} |->
            IF x = "notes" THEN Lit("remote notes") ELSE ProviderFields[x]])

\* Values json.loads(content) can yield.
ParsedChoices ==
    {ProviderDoc, NullDoc, ExtraKeyDoc, TaggedDoc, MissingKeyDoc,
     JObj(EmptyDict), JList(<<>>)}

\* Values of message["content"].
ContentChoices ==
    {JStr(JsonText(d)) : d \in ParsedChoices} \cup {Lit("Sorry, I cannot help."), None}

Completion(content) ==
    JObj([choices |-> JList(<<JObj([message |-> JObj([content |-> content])])>>)])

\* Values json.loads(response body) can yield.
RawChoices ==
    {Completion(c) : c \in ContentChoices}
    \cup {JList(<<>>),
          JObj([error |-> Lit("overloaded")]),
          JObj([choices |-> JList(<<>>)]),
          JObj([choices |-> JList(<<JObj([message |-> JObj(EmptyDict)])>>)])}

\* Response bodies of a 2xx response.
Bodies ==
    {JsonText(r) : r \in RawChoices} \cup {Plain(<<"<html>Bad Gateway</html>">>), NotUtf8}

NoArgs == [topic |-> <<>>, query |-> <<>>]

\* (topic, query) pairs the callers pass; those of src/tests/test_research_engine.py.
Inputs ==
    {[topic |-> <<"Computer Vision">>,
      query |-> <<"How can students improve defect detection?">>],
     [topic |-> <<"NLP">>, query |-> <<"Topic">>]}

Unset == [set |-> FALSE, val |-> <<>>]

SetTo(val) == [set |-> TRUE, val |-> val]

\* Values of the OPENAI_API_KEY entry of the process environment.
EnvChoices ==
    {Unset, SetTo(<<>>), SetTo(<<" ">>), SetTo(<<" ", "sk-test", " ">>)}

NoBody == [k |-> "none"]


---------------------------------------------------------------------------
\* State

VARIABLES
    env,       \* the OPENAI_API_KEY entry of os.environ
    pc,        \* where each invocation of generate_report stands
    args,      \* its (topic, query)
    calls,     \* urlopen calls it has issued
    idle,      \* seconds its blocking socket operation has waited without data (0 when none is pending)
    body,      \* the response body it read
    exc,       \* the exception raised inside _try_openai_json, "none" if none
    external,  \* the value _try_openai_json returned
    report,    \* the address of the dict it builds and returns
    heap       \* the dict objects, by address; None where nothing is allocated

vars == <<env, pc, args, calls, idle, body, exc, external, report, heap>>

Addresses == 0..NumInvocations

Min(a, b) == IF a < b THEN a ELSE b

\* Every invocation's dict literal evaluates to one shared object.
SharedAddr(i) == 1

\* The address of the dict object invocation i constructs: a new object each time.
FreshAddr(i) == i

\* api_key = os.getenv("OPENAI_API_KEY", ""), without the strip.
HasCredentialUnstripped(entry) == getenv(entry, <<>>) # <<>>

\* api_key = os.getenv("OPENAI_API_KEY", "").strip(); "if not api_key" is not taken.
HasCredential(entry) == strip(getenv(entry, <<>>)) # <<>>

\* request.urlopen(req, timeout=45), called once at line 182.
Urlopen(n) == n + 1

\* "if external:" never taken.
IsDocumentNever(value) == FALSE

\* "if external:", line 196.
IsDocument(value) == Truthy(value)

\* The fallback report returned without its provenance tag.
TagOmitted(d, topic, query) == d

\* report["prompt_debug"] = {...}, lines 200-204.
Tag(d, topic, query) == SetItem(d, "prompt_debug", PromptDebug(topic, query))

Init ==
    /\ env \in EnvChoices
    /\ pc = [i \in Invocations |-> "idle"]
    /\ args = [i \in Invocations |-> NoArgs]
    /\ calls = [i \in Invocations |-> 0]
    /\ idle = [i \in Invocations |-> 0]
    /\ body = [i \in Invocations |-> NoBody]
    /\ exc = [i \in Invocations |-> "none"]
    /\ external = [i \in Invocations |-> None]
    /\ report = [i \in Invocations |-> 0]
    /\ heap = [a \in Addresses |-> None]

\* _try_openai_json has returned value (lines 158, 187, 189 or 191):
\* generate_report runs lines 195-205, returning the document at line 197 or
\* the tagged fallback report at line 205.
Returned(i, a, value) ==
    /\ external' = [external EXCEPT ![i] = value]
    /\ report' = [report EXCEPT ![i] = FreshAddr(i)]
    /\ pc' = [pc EXCEPT ![i] = "done"]
    /\ heap' = [heap EXCEPT ![FreshAddr(i)] =
                  IF IsDocument(value) THEN value
                  ELSE Tag(_fallback_report(a.topic, a.query), a.topic, a.query)]

\* The try block ends with exception e: lines 188-189 return None when the except
\* clause names it, otherwise it propagates out of generate_report.
Raised(i, e) ==
    /\ exc' = [exc EXCEPT ![i] = e]
    /\ IF Caught(e)
       THEN Returned(i, args[i], None)
       ELSE /\ pc' = [pc EXCEPT ![i] = "raised"]
            /\ UNCHANGED <<external, report, heap>>

\* generate_report(topic, query) is called and runs to the urlopen call of
\* line 182, or through line 158 to line 205 when no credential is configured.
Invoke(i, a) ==
    /\ pc[i] = "idle"
    /\ args' = [args EXCEPT ![i] = a]
    /\ IF HasCredential(env)
       THEN /\ calls' = [calls EXCEPT ![i] = Urlopen(@)]
            /\ pc' = [pc EXCEPT ![i] = "waiting"]
            /\ UNCHANGED <<external, report, heap>>
       ELSE /\ calls' = calls
            /\ Returned(i, a, None)
    /\ UNCHANGED <<env, idle, body, exc>>

\* DNS, connect or TLS failure, or an error while sending: urlopen raises URLError.
ConnectionFails(i) ==
    /\ pc[i] = "waiting"
    /\ Raised(i, "URLError")
    /\ idle' = [idle EXCEPT ![i] = 0]
    /\ UNCHANGED <<env, args, calls, body>>

\* The peer answers with a status that is not 2xx: urlopen raises HTTPError.
ErrorStatus(i) ==
    /\ pc[i] = "waiting"
    /\ Raised(i, "HTTPError")
    /\ idle' = [idle EXCEPT ![i] = 0]
    /\ UNCHANGED <<env, args, calls, body>>

\* The peer closes the connection: before the status line http.client raises
\* RemoteDisconnected from getresponse(), inside the body IncompleteRead from read().
PeerDisconnects(i) ==
    /\ pc[i] \in {"waiting", "reading"}
    /\ Raised(i, IF pc[i] = "waiting" THEN "RemoteDisconnected" ELSE "IncompleteRead")
    /\ idle' = [idle EXCEPT ![i] = 0]
    /\ UNCHANGED <<env, args, calls, body>>

\* The peer sends a 2xx status line and headers: urlopen returns, response.read() starts.
ResponseHeaders(i) ==
    /\ pc[i] = "waiting"
    /\ pc' = [pc EXCEPT ![i] = "reading"]
    /\ idle' = [idle EXCEPT ![i] = 0]
    /\ UNCHANGED <<env, args, calls, body, exc, external, report, heap>>

\* Time passes while the socket operation of invocation i waits for data.
Tick(i) ==
    /\ pc[i] \in {"waiting", "reading"}
    /\ idle[i] < timeout
    /\ idle' = [idle EXCEPT ![i] = Min(@ + Quantum, timeout)]
    /\ UNCHANGED <<env, pc, args, calls, body, exc, external, report, heap>>

\* The socket operation has waited `timeout` seconds without data: TimeoutError.
TimeoutExpires(i) ==
    /\ pc[i] \in {"waiting", "reading"}
    /\ idle[i] >= timeout
    /\ Raised(i, "TimeoutError")
    /\ idle' = [idle EXCEPT ![i] = 0]
    /\ UNCHANGED <<env, args, calls, body>>

\* The peer sends some more of the body: the recv returns and the next one
\* starts to wait afresh (the timeout bounds each socket operation, not the call).
BodyChunk(i) ==
    /\ pc[i] = "reading"
    /\ 0 < idle[i]
    /\ idle[i] < timeout
    /\ idle' = [idle EXCEPT ![i] = 0]
    /\ UNCHANGED <<env, pc, args, calls, body, exc, external, report, heap>>

\* The body b is complete: lines 183-191, then lines 195-205 of generate_report.
ResponseComplete(i, b) ==
    /\ pc[i] = "reading"
    /\ body' = [body EXCEPT ![i] = b]
    /\ LET r == ReadResponse(b) IN
       IF r.ok
       THEN Returned(i, args[i], r.val) /\ exc' = exc
       ELSE Raised(i, r.exc)
    /\ idle' = [idle EXCEPT ![i] = 0]
    /\ UNCHANGED <<env, args, calls>>

Next ==
    \/ \E i \in Invocations, a \in Inputs : Invoke(i, a)
    \/ \E i \in Invocations : ConnectionFails(i)
    \/ \E i \in Invocations : ErrorStatus(i)
    \/ \E i \in Invocations : PeerDisconnects(i)
    \/ \E i \in Invocations : ResponseHeaders(i)
    \/ \E i \in Invocations : Tick(i)
    \/ \E i \in Invocations : TimeoutExpires(i)
    \/ \E i \in Invocations : BodyChunk(i)
    \/ \E i \in Invocations, b \in Bodies : ResponseComplete(i, b)

Spec == Init /\ [][Next]_vars

\* Time passes and an expired socket timer fires.  Nothing is assumed of the peer.
Fairness ==
    \A i \in Invocations :
        /\ WF_vars(Tick(i))
        /\ WF_vars(TimeoutExpires(i))

FairSpec == Spec /\ Fairness

---------------------------------------------------------------------------
\* Vocabulary of the properties

Done(i) == pc[i] = "done"

\* The dict generate_report returned.
Result(i) == heap[report[i]]

KeysOf(value) == IF value.t = "obj" THEN DOMAIN value.v ELSE {}

\* generate_report took the fallback path / the external path.
FallbackPath(i) == Done(i) /\ external[i] = None

ExternalPath(i) == Done(i) /\ external[i] # None

\* The 2xx body whose first choice's message content is the JSON text of d.
BodyWith(d) == JsonText(Completion(JStr(JsonText(d))))

\* The response carried a message content that parses as a JSON object.
SentObject(b) == \E d \in ParsedChoices : d.t = "obj" /\ b = BodyWith(d)

ObjectSent(b) == CHOOSE d \in ParsedChoices : d.t = "obj" /\ b = BodyWith(d)

\* The response carried a JSON object with every required key.
ValidObjectSent(b) == SentObject(b) /\ REQUIRED_KEYS \subseteq KeysOf(ObjectSent(b))

\* Tagged with prompt_debug.source = "fallback".
TaggedFallback(r) ==
    /\ "prompt_debug" \in KeysOf(r)
    /\ "source" \in KeysOf(r.v["prompt_debug"])
    /\ r.v["prompt_debug"].v["source"] = Lit("fallback")

\* The fallback report for a, plus the single key prompt_debug.
ExpectedFallback(a) ==
    SetItem(_fallback_report(a.topic, a.query), "prompt_debug",
            JObj([system_prompt |-> build_system_prompt,
                  user_prompt |-> build_user_prompt(a.topic, a.query),
                  source |-> Lit("fallback")]))

\* The shapes of the data model.
IsString(v) == v.t = "str"

NonEmptyString(v) == v.t = "str" /\ TextNonEmpty(v.v)

ListOf(v, P(_)) == v.t = "list" /\ \A n \in 1..Len(v.v) : P(v.v[n])

NonEmptyListOf(v, P(_)) == ListOf(v, P) /\ Len(v.v) > 0

Fields(v, names, P(_)) ==
    v.t = "obj" /\ names \subseteq DOMAIN v.v /\ \A n \in names : P(v.v[n])

IsSourceFinding(v) == Fields(v, {"source", "finding"}, IsString)

IsMetricRow(v) == Fields(v, {"metric", "baseline", "proposed"}, IsString)

NonEmptyStrings(v) == NonEmptyListOf(v, IsString)

WellShaped(r) ==
    /\ REQUIRED_KEYS \subseteq KeysOf(r)
    /\ \A n \in {"abstract", "introduction", "conclusion"} : NonEmptyString(r.v[n])
    /\ ListOf(r.v["literature_review"], IsSourceFinding)
    /\ \A n \in {"research_gaps", "references", "ppt_outline", "viva_questions"} :
           NonEmptyStrings(r.v[n])
    /\ Fields(r.v["methodology"], {"design"}, IsString)
    /\ Fields(r.v["methodology"], {"steps"}, NonEmptyStrings)
    /\ Fields(r.v["simulated_results"], {"summary"}, IsString)
    /\ Fields(r.v["simulated_results"], {"table"}, LAMBDA v : NonEmptyListOf(v, IsMetricRow))
    /\ Fields(r.v["datasets_and_tools"], {"datasets", "tools"}, NonEmptyStrings)

\* The literature_review sources of a report, in order.
Sources(r) ==
    [n \in 1..Len(r.v["literature_review"].v) |-> r.v["literature_review"].v[n].v["source"]]

---------------------------------------------------------------------------
\* C1. Totality: whatever the provider does, generate_report returns a report
\* with every required key and never raises to its caller.
C1_Totality ==
    \A i \in Invocations :
        /\ pc[i] # "raised"
        /\ Done(i) => REQUIRED_KEYS \subseteq KeysOf(Result(i))

\* C2. _try_openai_json never signals an error: when urlopen fails (transport
\* error, non-2xx status, timeout), and when a response is received that does
\* not carry a JSON object with every required key (body or content not JSON,
\* no first choice, content not an object, keys missing), the outcome is None
\* and generate_report goes on to the fallback report.
C2_TryNeverRaises ==
    \A i \in Invocations :
        /\ exc[i] \in {"URLError", "HTTPError", "TimeoutError"} => FallbackPath(i)
        /\ (body[i] # NoBody /\ ~ValidObjectSent(body[i])) => FallbackPath(i)

\* C3, as stated. Provenance: on the fallback path prompt_debug.source is
\* "fallback"; on the external path the returned report has no prompt_debug key.
C3_Provenance ==
    \A i \in Invocations :
        /\ FallbackPath(i) => TaggedFallback(Result(i))
        /\ ExternalPath(i) => "prompt_debug" \notin KeysOf(Result(i))

\* C3, amended. On the fallback path prompt_debug.source is "fallback"; on the
\* external path generate_report adds no prompt_debug key: the returned report
\* has one exactly when the document the provider sent has one.
C3_ProvenanceAmended ==
    \A i \in Invocations :
        /\ FallbackPath(i) => TaggedFallback(Result(i))
        /\ ExternalPath(i) =>
             /\ SentObject(body[i])
             /\ "prompt_debug" \in KeysOf(Result(i))
                  <=> "prompt_debug" \in KeysOf(ObjectSent(body[i]))

\* One invocation fell back, another returned a provider document that carries
\* a prompt_debug key of its own.
C3_Witness ==
    \E i, j \in Invocations :
        /\ FallbackPath(i)
        /\ ExternalPath(j)
        /\ body[j] = BodyWith(TaggedDoc)

\* C4, as stated. With the credential unset or empty an invocation issues no
\* urlopen call; with any other value configured it issues exactly one.
C4_CallCount ==
    \A i \in Invocations :
        /\ calls[i] <= 1
        /\ pc[i] # "idle" =>
             calls[i] = (IF ~env.set \/ env.val = <<>> THEN 0 ELSE 1)

\* C4, amended. With the credential unset, empty or all whitespace an invocation
\* issues no urlopen call; otherwise it issues exactly one, when it starts, and
\* never a second one, whatever the outcome.
C4_CallCountAmended ==
    \A i \in Invocations :
        /\ calls[i] <= 1
        /\ pc[i] = "idle" => calls[i] = 0
        /\ pc[i] # "idle" =>
             calls[i] = (IF ~env.set \/ \A n \in 1..Len(env.val) : env.val[n] = " "
                         THEN 0 ELSE 1)

\* With a credential, one invocation has returned and another has raised, each
\* after exactly one call.
C4_Witness ==
    \E i, j \in Invocations :
        /\ env.set /\ \E n \in 1..Len(env.val) : env.val[n] # " "
        /\ pc[i] = "done" /\ calls[i] = 1
        /\ pc[j] = "raised" /\ calls[j] = 1

\* C5. Schema gate: a received message content that parses as a JSON object is
\* rejected (None, hence the fallback report) when a required key is missing,
\* and is returned when all are present, extra keys or not.
C5_SchemaGate ==
    \A i \in Invocations :
        SentObject(body[i]) =>
            LET d == ObjectSent(body[i]) IN
            IF REQUIRED_KEYS \subseteq KeysOf(d)
            THEN ExternalPath(i) /\ external[i] = d /\ Result(i) = d
            ELSE FallbackPath(i) /\ TaggedFallback(Result(i))

\* One response lacked "references" and was rejected; another carried an extra
\* key and was returned.
C5_Witness ==
    \E i, j \in Invocations :
        /\ body[i] = BodyWith(MissingKeyDoc) /\ FallbackPath(i)
        /\ body[j] = BodyWith(ExtraKeyDoc) /\ ExternalPath(j)

\* C6, as stated. Every returned report has the eleven required keys with the
\* shapes of the data model, on either path.
C6_Shape ==
    \A i \in Invocations : Done(i) => WellShaped(Result(i))

\* C6, amended. Every returned report has the eleven required keys; on the
\* fallback path they have the shapes of the data model.
C6_ShapeAmended ==
    \A i \in Invocations :
        /\ Done(i) => REQUIRED_KEYS \subseteq KeysOf(Result(i))
        /\ FallbackPath(i) => WellShaped(Result(i))

\* One invocation fell back; another returned a provider document whose
\* required keys all hold null.
C6_Witness ==
    \E i, j \in Invocations :
        /\ FallbackPath(i)
        /\ ExternalPath(j) /\ Result(j) = NullDoc

\* C7. Timeout bound: an invocation that has issued its external call
\* eventually leaves it; it never blocks forever.
C7_TimeoutBound ==
    \A i \in Invocations :
        (pc[i] \in {"waiting", "reading"}) ~> (pc[i] \in {"done", "raised"})

\* C8. The fallback report's literature_review has exactly the sources Google
\* Scholar, IEEE Xplore, PubMed, in this order; with no credential configured
\* generate_report returns a report with that list.
C8_FallbackSources ==
    \A i \in Invocations :
        /\ FallbackPath(i) =>
             Sources(Result(i)) = <<Lit("Google Scholar"), Lit("IEEE Xplore"), Lit("PubMed")>>
        /\ (~env.set /\ pc[i] # "idle") => FallbackPath(i)

\* With no credential, both test inputs have been answered.
C8_Witness ==
    /\ ~env.set
    /\ \E i, j \in Invocations :
         /\ FallbackPath(i) /\ args[i].topic = <<"NLP">>
         /\ FallbackPath(j) /\ args[j].topic = <<"Computer Vision">>

\* C9. Two branches: generate_report returns the document _try_openai_json
\* produced, unchanged, exactly when it produced one; otherwise the fallback
\* report for its (topic, query) plus the single key prompt_debug.
C9_TwoBranch ==
    \A i \in Invocations :
        Done(i) =>
            IF external[i] # None
            THEN Result(i) = external[i]
            ELSE /\ KeysOf(Result(i)) = REQUIRED_KEYS \cup {"prompt_debug"}
                 /\ \A n \in REQUIRED_KEYS :
                        Result(i).v[n] = FallbackFields(args[i].topic, args[i].query)[n]
                 /\ Result(i).v["prompt_debug"] = ExpectedFallback(args[i]).v["prompt_debug"]

\* One invocation returned the provider's document, another the fallback
\* report after a response that failed the key check.
C9_Witness ==
    \E i, j \in Invocations :
        /\ ExternalPath(i) /\ body[i] = BodyWith(ProviderDoc)
        /\ FallbackPath(j) /\ body[j] = BodyWith(MissingKeyDoc)

\* What invocation i returns when it runs alone with its own (topic, query) and
\* the outcome of its own external call.
Alone(i) ==
    IF ValidObjectSent(body[i])
    THEN ObjectSent(body[i])
    ELSE ExpectedFallback(args[i])

\* C10. Independence: the reports of different invocations are different
\* objects, and under every interleaving each invocation's report is, and
\* stays, the one it returns when run alone.
C10_Independence ==
    \A i \in Invocations :
        /\ \A j \in Invocations : (i # j /\ report[i] # 0) => report[i] # report[j]
        /\ Done(i) => Result(i) = Alone(i)

\* Two invocations with different inputs have both returned, one the fallback
\* report and one after interpreting a response.
C10_Witness ==
    \E i, j \in Invocations :
        /\ Done(i) /\ Done(j)
        /\ args[i] # args[j]
        /\ body[i] = NoBody /\ exc[i] = "TimeoutError"
        /\ body[j] # NoBody

=============================================================================
